---------------------------- MODULE Spec2Model ----------------------------
(***************************************************************************)
(* A model of bin/mk-node-defs.py: the size parsers (parse_memory,         *)
(* parse_disk_size), the generator's main() with its IP allocation loop,   *)
(* and the virt-install.sh script that main() emits for every node.        *)
(*                                                                         *)
(* Strings are sequences of one-character strings, so that strip, upper,   *)
(* endswith, slicing, float() and int() act on the characters as Python    *)
(* does.  Python integers are unbounded; the integers that hold addresses  *)
(* are kept as two limbs [hi, lo] with value hi * 2^16 + lo, so that the   *)
(* 32-bit boundary is represented exactly.                                 *)
(***************************************************************************)
EXTENDS Integers, Sequences, FiniteSets, TLC

(***************************************************************************)
(* Bounds of the model.                                                    *)
(***************************************************************************)
\* Longest size string drawn from SizeAlphabet (the named examples are longer).
MaxLen == 4
\* Largest --nodes value drawn.
MaxNodes == 3
\* Number of times one generated virt-install.sh is run.
MaxRuns == 3

(***************************************************************************)
(* Characters and Python's str methods.                                    *)
(***************************************************************************)
Digits == <<"0", "1", "2", "3", "4", "5", "6", "7", "8", "9">>

DigitSet == {Digits[k] : k \in 1..10}

\* int() of one decimal digit character
DigitVal(c) == (CHOOSE k \in 1..10 : Digits[k] = c) - 1

Whitespace == {" "}

LowerLetters ==
  <<"a", "b", "c", "d", "e", "f", "g", "h", "i", "j", "k", "l", "m",
    "n", "o", "p", "q", "r", "s", "t", "u", "v", "w", "x", "y", "z">>

UpperLetters ==
  <<"A", "B", "C", "D", "E", "F", "G", "H", "I", "J", "K", "L", "M",
    "N", "O", "P", "Q", "R", "S", "T", "U", "V", "W", "X", "Y", "Z">>

\* str.upper() on one character
UpperChar(c) ==
  IF \E k \in 1..26 : LowerLetters[k] = c
    THEN UpperLetters[CHOOSE k \in 1..26 : LowerLetters[k] = c]
    ELSE c

\* str.upper()
Upper(s) == [k \in 1..Len(s) |-> UpperChar(s[k])]

RECURSIVE LStrip(_)
LStrip(s) ==
  IF s # <<>> /\ Head(s) \in Whitespace THEN LStrip(Tail(s)) ELSE s

RECURSIVE RStrip(_)
RStrip(s) ==
  IF s # <<>> /\ s[Len(s)] \in Whitespace
    THEN RStrip(SubSeq(s, 1, Len(s) - 1))
    ELSE s

\* str.strip()
Strip(s) == RStrip(LStrip(s))

\* str.isdigit(): non-empty and every character a digit
IsDigit(s) == s # <<>> /\ \A k \in 1..Len(s) : s[k] \in DigitSet

\* str.endswith(suffix)
EndsWith(s, suffix) ==
  /\ Len(s) >= Len(suffix)
  /\ SubSeq(s, Len(s) - Len(suffix) + 1, Len(s)) = suffix

\* s[:-n]
DropLast(s, n) == SubSeq(s, 1, Len(s) - n)

\* int() of a string of decimal digits
RECURSIVE DecVal(_)
DecVal(s) ==
  IF s = <<>> THEN 0
  ELSE 10 * DecVal(SubSeq(s, 1, Len(s) - 1)) + DigitVal(s[Len(s)])

RECURSIVE Pow10(_)
Pow10(k) == IF k = 0 THEN 1 ELSE 10 * Pow10(k - 1)

\* Position of the first occurrence of character c in s, 0 when absent.
IndexOf(s, c) ==
  IF \E k \in 1..Len(s) : s[k] = c
    THEN CHOOSE k \in 1..Len(s) : s[k] = c /\ \A j \in 1..(k - 1) : s[j] # c
    ELSE 0

AllDigits(s) == \A k \in 1..Len(s) : s[k] \in DigitSet

(***************************************************************************)
(* float(): surrounding whitespace is ignored, then an optional sign and a *)
(* decimal literal digits[.digits] or .digits.  The value is kept exactly  *)
(* as (-1)^neg * mant / 10^scale.  Anything else raises ValueError.  The   *)
(* exponent, underscore, "inf" and "nan" forms need characters that the    *)
(* inputs drawn here do not contain.                                       *)
(***************************************************************************)
FloatBad == [ok |-> FALSE, neg |-> FALSE, mant |-> 0, scale |-> 0]

FloatUnsigned(neg, body) ==
  LET dot == IndexOf(body, ".")
      ip == IF dot = 0 THEN body ELSE SubSeq(body, 1, dot - 1)
      fp == IF dot = 0 THEN <<>> ELSE SubSeq(body, dot + 1, Len(body))
  IN IF /\ AllDigits(ip)
        /\ AllDigits(fp)
        /\ Len(ip) + Len(fp) >= 1
       THEN [ok |-> TRUE, neg |-> neg, mant |-> DecVal(ip \o fp), scale |-> Len(fp)]
       ELSE FloatBad

Float(s) ==
  LET t == Strip(s)
  IN IF t = <<>> THEN FloatBad
     ELSE IF Head(t) \in {"-", "+"} THEN FloatUnsigned(Head(t) = "-", Tail(t))
     ELSE FloatUnsigned(FALSE, t)

\* int(x): truncation toward zero of the quotient num / den, den > 0
TruncDiv(num, den) ==
  IF num >= 0 THEN num \div den ELSE -((-num) \div den)

\* int(val * mul), val the value of f
IntOfProduct(f, mul) ==
  TruncDiv((IF f.neg THEN -1 ELSE 1) * f.mant * mul, Pow10(f.scale))

\* int(val / div), val the value of f
IntOfQuotient(f, div) ==
  TruncDiv((IF f.neg THEN -1 ELSE 1) * f.mant, Pow10(f.scale) * div)

Max(a, b) == IF a >= b THEN a ELSE b

(***************************************************************************)
(* Outcomes of a call: a returned value, or a raised exception with the    *)
(* message it carries.  A message is the literal text of the format string *)
(* and the value interpolated into it (<<>> when nothing is interpolated). *)
(***************************************************************************)
Return(v) == [ok |-> TRUE, value |-> v]

Raise(exc, literal, arg) ==
  [ok |-> FALSE, exc |-> exc, literal |-> literal, arg |-> arg]

MemInvalidText == "Invalid memory specification: "

MemGrammarText ==
  "Memory specification must be a number optionally suffixed with M/MB or G/GB"

DiskInvalidText == "Invalid disk size specification: "

DiskGrammarText ==
  "Disk size must be a number optionally suffixed with M/MB or G/GB"

\* MemConvert with the truncation done before the unit conversion
MemConvert_TruncFirst(mem_str, n, mul) ==
  LET val == Float(DropLast(mem_str, n))
  IN IF val.ok THEN Return(IntOfProduct(val, 1) * mul)
     ELSE Raise("ArgumentTypeError", MemInvalidText, mem_str)

\* The try blocks of parse_memory: float() of the numeric portion, then
\* int(val * mul); ValueError becomes ArgumentTypeError naming mem_str.
MemConvert(mem_str, n, mul) ==
  LET val == Float(DropLast(mem_str, n))
  IN IF val.ok THEN Return(IntOfProduct(val, mul))
     ELSE Raise("ArgumentTypeError", MemInvalidText, mem_str)

\* Scale applied to a gigabyte value of parse_memory
MemGScale == 1024

parse_memory(mem_str0) ==
  LET stripped == Strip(mem_str0)
      mem_str == Upper(stripped)
  IN IF IsDigit(stripped) THEN Return(DecVal(stripped))
     ELSE IF EndsWith(mem_str, <<"G", "B">>) THEN MemConvert(mem_str, 2, MemGScale)
     ELSE IF EndsWith(mem_str, <<"G">>) THEN MemConvert(mem_str, 1, MemGScale)
     ELSE IF EndsWith(mem_str, <<"M", "B">>) THEN MemConvert(mem_str, 2, 1)
     ELSE IF EndsWith(mem_str, <<"M">>) THEN MemConvert(mem_str, 1, 1)
     ELSE Raise("ArgumentTypeError", MemGrammarText, <<>>)

\* The G/GB try blocks of parse_disk_size: int(val)
DiskConvertG(size_str, n) ==
  LET val == Float(DropLast(size_str, n))
  IN IF val.ok THEN Return(IntOfProduct(val, 1))
     ELSE Raise("ArgumentTypeError", DiskInvalidText, size_str)

\* DiskConvertM without the minimum of 1
DiskConvertM_NoFloor(size_str, n) ==
  LET val == Float(DropLast(size_str, n))
  IN IF val.ok THEN Return(IntOfQuotient(val, 1024))
     ELSE Raise("ArgumentTypeError", DiskInvalidText, size_str)

\* The M/MB try blocks of parse_disk_size: max(1, int(val / 1024))
DiskConvertM(size_str, n) ==
  LET val == Float(DropLast(size_str, n))
  IN IF val.ok THEN Return(Max(1, IntOfQuotient(val, 1024)))
     ELSE Raise("ArgumentTypeError", DiskInvalidText, size_str)

parse_disk_size(size_str0) ==
  LET size_str == Upper(Strip(size_str0))
  IN IF IsDigit(size_str) THEN Return(DecVal(size_str))
     ELSE IF EndsWith(size_str, <<"G", "B">>) THEN DiskConvertG(size_str, 2)
     ELSE IF EndsWith(size_str, <<"G">>) THEN DiskConvertG(size_str, 1)
     ELSE IF EndsWith(size_str, <<"M", "B">>) THEN DiskConvertM(size_str, 2)
     ELSE IF EndsWith(size_str, <<"M">>) THEN DiskConvertM(size_str, 1)
     ELSE Raise("ArgumentTypeError", DiskGrammarText, <<>>)

(***************************************************************************)
(* Python integers that hold addresses: value hi * 2^16 + lo, 0 <= lo <    *)
(* 2^16, hi any integer (negative below zero, 2^16 and more from 2^32 on). *)
(***************************************************************************)
Limb == 2^16

BigInt(hi, lo) == [hi |-> hi, lo |-> lo]

\* n + k for a Python integer n and a small integer k of either sign
BigAdd(n, k) ==
  LET s == n.lo + k
  IN BigInt(n.hi + (s \div Limb), s % Limb)

\* n - k
BigSub(n, k) == BigAdd(n, -k)

(***************************************************************************)
(* The ipaddress module, as far as main() uses it.                         *)
(***************************************************************************)
\* str.split(sep) for a one-character separator
RECURSIVE Split(_, _)
Split(s, sep) ==
  LET k == IndexOf(s, sep)
  IN IF k = 0 THEN <<s>>
     ELSE <<SubSeq(s, 1, k - 1)>> \o Split(SubSeq(s, k + 1, Len(s)), sep)

\* IPv4Address._parse_octet: 1 to 3 ASCII digits, no leading zero, at most 255
OctetOk(o) ==
  /\ o # <<>>
  /\ AllDigits(o)
  /\ Len(o) <= 3
  /\ (Len(o) > 1 => o[1] # "0")
  /\ DecVal(o) <= 255

\* IPv4Address._ip_int_from_string: whether ip_str is a dotted quad
IsDottedQuad(ip_str) ==
  LET octets == Split(ip_str, ".")
  IN /\ ip_str # <<>>
     /\ Len(octets) = 4
     /\ \A k \in 1..4 : OctetOk(octets[k])

\* The four octet values of a dotted quad
OctetsOf(ip_str) ==
  LET octets == Split(ip_str, ".")
  IN [k \in 1..4 |-> DecVal(octets[k])]

\* int(IPv4Address(ip_str))
IPv4Int(ip_str) ==
  LET o == OctetsOf(ip_str)
  IN BigInt(o[1] * 256 + o[2], o[3] * 256 + o[4])

\* The 8 bits of an octet value, most significant first
OctetBits(v) == [k \in 1..8 |-> (v \div (2^(8 - k))) % 2]

\* The 32 bits of an address, most significant first
BitsOf(o) == OctetBits(o[1]) \o OctetBits(o[2]) \o OctetBits(o[3]) \o OctetBits(o[4])

\* _prefix_from_ip_int: the bits are p ones followed by zeros; -1 otherwise
PrefixFromBits(bits) ==
  LET ones == Cardinality({k \in 1..32 : bits[k] = 1})
  IN IF \A k \in 1..32 : (bits[k] = 1) <=> (k <= ones) THEN ones ELSE -1

\* _make_netmask: a prefix length 0..32 in ASCII digits, else a dotted-quad
\* netmask, else a dotted-quad hostmask; -1 when none of them
MakeNetmask(arg) ==
  IF arg # <<>> /\ AllDigits(arg)
    THEN (IF DecVal(arg) <= 32 THEN DecVal(arg) ELSE -1)
  ELSE IF ~IsDottedQuad(arg) THEN -1
  ELSE LET bits == BitsOf(OctetsOf(arg))
           inverted == [k \in 1..32 |-> 1 - bits[k]]
       IN IF PrefixFromBits(bits) >= 0 THEN PrefixFromBits(bits)
          ELSE PrefixFromBits(inverted)

\* ipaddress.ip_interface(address): the IPv4 form; every string drawn here
\* lacks ':' and so fails the IPv6 form, which raises ValueError
ip_interface(address) ==
  LET addr == Split(address, "/")
      prefixlen == IF Len(addr) = 2 THEN MakeNetmask(addr[2]) ELSE 32
  IN IF Len(addr) <= 2 /\ IsDottedQuad(addr[1]) /\ prefixlen >= 0
       THEN [ok |-> TRUE, ip |-> IPv4Int(addr[1]), prefixlen |-> prefixlen]
       ELSE [ok |-> FALSE, ip |-> BigInt(0, 0), prefixlen |-> 0]

\* str(int) for a natural number
RECURSIVE DecStr(_)
DecStr(n) ==
  IF n < 10 THEN <<Digits[n + 1]>>
  ELSE DecStr(n \div 10) \o <<Digits[(n % 10) + 1]>>

HexDigits ==
  <<"0", "1", "2", "3", "4", "5", "6", "7", "8", "9", "a", "b", "c", "d", "e", "f">>

\* '%x' % n
RECURSIVE HexStr(_)
HexStr(n) ==
  IF n < 16 THEN <<HexDigits[n + 1]>>
  ELSE HexStr(n \div 16) \o <<HexDigits[(n % 16) + 1]>>

\* sep.join(parts)
RECURSIVE Join(_, _)
Join(parts, sep) ==
  IF parts = <<>> THEN <<>>
  ELSE IF Len(parts) = 1 THEN parts[1]
  ELSE parts[1] \o <<sep>> \o Join(Tail(parts), sep)

\* str(IPv4Address(n))
IPv4Text(n) ==
  Join(<<DecStr(n.hi \div 256), DecStr(n.hi % 256),
         DecStr(n.lo \div 256), DecStr(n.lo % 256)>>, ".")

\* Length of the run of "0" hextets that starts at position k
RECURSIVE ZeroRun(_, _)
ZeroRun(hextets, k) ==
  IF k > Len(hextets) \/ hextets[k] # <<"0">> THEN 0
  ELSE 1 + ZeroRun(hextets, k + 1)

\* IPv6Address._compress_hextets: the first longest run of two or more "0"
\* hextets is replaced by one empty part, doubled at either end
CompressHextets(hextets) ==
  LET best == CHOOSE k \in 1..Len(hextets) :
                /\ \A j \in 1..Len(hextets) : ZeroRun(hextets, j) <= ZeroRun(hextets, k)
                /\ \A j \in 1..(k - 1) : ZeroRun(hextets, j) < ZeroRun(hextets, k)
      len == ZeroRun(hextets, best)
      before == SubSeq(hextets, 1, best - 1)
      after == SubSeq(hextets, best + len, Len(hextets))
  IN IF len <= 1 THEN hextets
     ELSE (IF best = 1 THEN <<<<>>>> ELSE <<>>)
          \o before \o <<<<>>>> \o after
          \o (IF best + len - 1 = Len(hextets) THEN <<<<>>>> ELSE <<>>)

\* The eight hextets of an integer n with 2^32 <= n < 2^47
HextetsOf(n) == <<0, 0, 0, 0, 0, n.hi \div Limb, n.hi % Limb, n.lo>>

\* str(IPv6Address(n))
IPv6Text(n) ==
  LET h == HextetsOf(n)
  IN Join(CompressHextets([k \in 1..8 |-> HexStr(h[k])]), ":")

\* ipaddress.ip_address(n) for an integer n: IPv4Address when 0 <= n < 2^32,
\* else IPv6Address when n < 2^128 (every integer the model reaches is), else
\* ValueError
ip_address(n) ==
  IF n.hi < 0 THEN [ok |-> FALSE, version |-> 0, text |-> <<>>]
  ELSE IF n.hi < Limb THEN [ok |-> TRUE, version |-> 4, text |-> IPv4Text(n)]
  ELSE [ok |-> TRUE, version |-> 6, text |-> IPv6Text(n)]

\* str(i) for an integer of either sign
IntStr(n) == IF n < 0 THEN <<"-">> \o DecStr(-n) ELSE DecStr(n)

\* f"node{i}"
NodeName(n) == <<"n", "o", "d", "e">> \o IntStr(n)

(***************************************************************************)
(* State.                                                                  *)
(***************************************************************************)
VARIABLES
  \* the size parsers called on their own
  size_str,        \* the argument string
  mem_ret,         \* outcome of parse_memory(size_str)
  disk_ret,        \* outcome of parse_disk_size(size_str)
  \* one run of main()
  args,            \* the parsed command line
  pc,              \* position of main()
  exc,             \* the exception or exit that ended main(), "" while none
  mem_mb,
  disk_size,
  direction,
  base_ip_int,
  prefix,
  i,               \* loop variable of the generation loop
  node_ip,
  dirs,            \* directories created by this run
  files,           \* files written by this run: path -> content
  \* runs of one generated virt-install.sh
  script_pc,       \* position of the script
  iso_exists,      \* whether ISO_PATH is a file
  vm_dir_exists,   \* whether VM_IMAGE_DIR is a directory
  tool_installed,  \* whether `command -v genisoimage` succeeds
  runs,            \* number of runs started
  run_log,         \* what the current run did, in order
  exit_code        \* exit status of the last finished run, -1 before the first

sizeVars == <<size_str, mem_ret, disk_ret>>

mainVars ==
  <<args, pc, exc, mem_mb, disk_size, direction, base_ip_int, prefix, i,
    node_ip, dirs, files>>

scriptVars ==
  <<script_pc, iso_exists, vm_dir_exists, tool_installed, runs, run_log,
    exit_code>>

vars == <<sizeVars, mainVars, scriptVars>>

NotCalled == [ok |-> FALSE, exc |-> "not called", literal |-> "", arg |-> <<>>]

\* The parts of the state a specification does not exercise stay idle.
SizeIdle ==
  /\ size_str = <<>>
  /\ mem_ret = NotCalled
  /\ disk_ret = NotCalled

MainIdle ==
  /\ args = [memory |-> <<>>, disk_size |-> <<>>, ip_pattern |-> <<>>,
             nodes |-> 0, node_base |-> 0]
  /\ pc = "idle"
  /\ exc = ""
  /\ mem_mb = 0
  /\ disk_size = 0
  /\ direction = ""
  /\ base_ip_int = BigInt(0, 0)
  /\ prefix = 0
  /\ i = 0
  /\ node_ip = <<>>
  /\ dirs = {}
  /\ files = <<>>

ScriptIdle ==
  /\ script_pc = "idle"
  /\ iso_exists = FALSE
  /\ vm_dir_exists = FALSE
  /\ tool_installed = FALSE
  /\ runs = 0
  /\ run_log = <<>>
  /\ exit_code = -1

(***************************************************************************)
(* The size parsers on their own: every string over SizeAlphabet of length *)
(* at most MaxLen, and the strings of the documented examples.             *)
(***************************************************************************)
SizeAlphabet == {"0", "1", "5", ".", "-", " ", "G", "M", "B", "g", "K"}

SizeExamples ==
  { <<"2", "0", "4", "8">>,
    <<"2", "G">>,
    <<"5", "1", "2", "M", "B">>,
    <<"b", "o", "g", "u", "s">>,
    <<"1", "0", "G">>,
    <<"1", "0", "2", "4", "0", "M">>,
    <<"5", "1", "2", "M">>,
    <<"a", "b", "c">>,
    <<"1", ".", "5", "G">>,
    <<" ", "1", ".", "5", "g", "b", " ">>,
    <<"2", "0", "4", "7", "m">>,
    <<"-", "2", "0", "4", "8", "M">>,
    <<"-", "1", ".", "5", "G">> }

SizeStrings ==
  SizeExamples \cup UNION {[1..n -> SizeAlphabet] : n \in 0..MaxLen}

SizeInit ==
  /\ size_str \in SizeStrings
  /\ mem_ret = NotCalled
  /\ disk_ret = NotCalled
  /\ MainIdle
  /\ ScriptIdle

CallParseMemory ==
  /\ mem_ret = NotCalled
  /\ mem_ret' = parse_memory(size_str)
  /\ UNCHANGED <<size_str, disk_ret, mainVars, scriptVars>>

CallParseDiskSize ==
  /\ disk_ret = NotCalled
  /\ disk_ret' = parse_disk_size(size_str)
  /\ UNCHANGED <<size_str, mem_ret, mainVars, scriptVars>>

SizeNext == CallParseMemory \/ CallParseDiskSize

SpecSize == SizeInit /\ [][SizeNext]_vars

(***************************************************************************)
(* main(): the command lines drawn.                                        *)
(***************************************************************************)
\* (--memory, --disk-size)
SizeArgs ==
  { <<<<"2", "0", "4", "8">>, <<"1", "0", "G">>>>,
    <<<<"2", "G">>, <<"5", "1", "2", "M">>>>,
    <<<<"b", "o", "g", "u", "s">>, <<"1", "0", "G">>>>,
    <<<<"2", "0", "4", "8">>, <<"a", "b", "c">>>>,
    <<<<"x", "G">>, <<"1", "0", "G">>>> }

AddrArgs ==
  { <<"1", "9", "2", ".", "1", "6", "8", ".", "1", ".", "1", "0", "0">>,
    <<"1", "0", ".", "0", ".", "2", "5", "5", ".", "2", "5", "4">>,
    <<"0", ".", "0", ".", "0", ".", "1">>,
    <<"2", "5", "5", ".", "2", "5", "5", ".", "2", "5", "5", ".", "2", "5", "4">>,
    <<"2", "5", "6", ".", "1", ".", "1", ".", "1">>,
    <<"1", "9", "2", ".", "1", "6", "8", ".", "1">> }

PrefixArgs ==
  { <<"/", "2", "4">>,
    <<"/", "3", "3">>,
    <<"/", "2", "5", "5", ".", "2", "5", "5", ".", "0", ".", "0">>,
    <<>> }

SuffixArgs == {<<"+">>, <<"-">>, <<>>}

\* --ip-pattern
PatternArgs ==
  {<<>>} \cup {a \o p \o d : a \in AddrArgs, p \in PrefixArgs, d \in SuffixArgs}

\* --node-base
NodeBaseArgs == {-1, 0, 1}

MainInit ==
  /\ \E sz \in SizeArgs, pat \in PatternArgs,
        n \in (-1)..MaxNodes, b \in NodeBaseArgs :
       args = [memory |-> sz[1], disk_size |-> sz[2], ip_pattern |-> pat,
               nodes |-> n, node_base |-> b]
  /\ pc = "parse_memory"
  /\ exc = ""
  /\ mem_mb = 0
  /\ disk_size = 0
  /\ direction = ""
  /\ base_ip_int = BigInt(0, 0)
  /\ prefix = 0
  /\ i = 0
  /\ node_ip = <<>>
  /\ dirs = {}
  /\ files = <<>>
  /\ SizeIdle
  /\ ScriptIdle

(***************************************************************************)
(* main(): one action per step.  An uncaught exception or parser.error()   *)
(* ends the run: pc becomes "aborted" and exc names what ended it.         *)
(***************************************************************************)
Abort(what) ==
  /\ pc' = "aborted"
  /\ exc' = what

\* mem_mb = parse_memory(args.memory)
ParseMemory ==
  /\ pc = "parse_memory"
  /\ LET r == parse_memory(args.memory)
     IN IF r.ok
          THEN /\ mem_mb' = r.value
               /\ pc' = "parse_disk_size"
               /\ exc' = exc
          ELSE /\ Abort(r.exc)
               /\ mem_mb' = mem_mb
  /\ UNCHANGED <<args, disk_size, direction, base_ip_int, prefix, i, node_ip,
                 dirs, files, sizeVars, scriptVars>>

\* disk_size = parse_disk_size(args.disk_size)
ParseDiskSize ==
  /\ pc = "parse_disk_size"
  /\ LET r == parse_disk_size(args.disk_size)
     IN IF r.ok
          THEN /\ disk_size' = r.value
               /\ pc' = "check_pattern"
               /\ exc' = exc
          ELSE /\ Abort(r.exc)
               /\ disk_size' = disk_size
  /\ UNCHANGED <<args, mem_mb, direction, base_ip_int, prefix, i, node_ip,
                 dirs, files, sizeVars, scriptVars>>

\* args.ip_pattern[-1] not in ['+', '-']: parser.error; else the direction
CheckPattern ==
  /\ pc = "check_pattern"
  /\ LET pat == args.ip_pattern
     IN IF pat = <<>>
          THEN /\ Abort("IndexError")
               /\ direction' = direction
        ELSE IF pat[Len(pat)] \notin {"+", "-"}
          THEN /\ Abort("SystemExit")
               /\ direction' = direction
        ELSE /\ direction' = pat[Len(pat)]
             /\ pc' = "parse_cidr"
             /\ exc' = exc
  /\ UNCHANGED <<args, mem_mb, disk_size, base_ip_int, prefix, i, node_ip,
                 dirs, files, sizeVars, scriptVars>>

\* ParseCIDR with the output directory created before the pattern is parsed
ParseCIDR_MakedirsFirst ==
  /\ pc = "parse_cidr"
  /\ dirs' = dirs \cup {<<"output_dir">>}
  /\ LET iface == ip_interface(DropLast(args.ip_pattern, 1))
     IN IF iface.ok
          THEN /\ base_ip_int' = iface.ip
               /\ prefix' = iface.prefixlen
               /\ pc' = "makedirs"
               /\ exc' = exc
          ELSE /\ Abort("SystemExit")
               /\ UNCHANGED <<base_ip_int, prefix>>
  /\ UNCHANGED <<args, mem_mb, disk_size, direction, i, node_ip, files,
                 sizeVars, scriptVars>>

\* iface = ipaddress.ip_interface(args.ip_pattern[:-1]); ValueError becomes
\* parser.error; then base_ip_int, prefix, and the loop variable's start
ParseCIDR ==
  /\ pc = "parse_cidr"
  /\ LET iface == ip_interface(DropLast(args.ip_pattern, 1))
     IN IF iface.ok
          THEN /\ base_ip_int' = iface.ip
               /\ prefix' = iface.prefixlen
               /\ pc' = "makedirs"
               /\ exc' = exc
          ELSE /\ Abort("SystemExit")
               /\ UNCHANGED <<base_ip_int, prefix>>
  /\ UNCHANGED <<args, mem_mb, disk_size, direction, i, node_ip, dirs, files,
                 sizeVars, scriptVars>>

\* os.makedirs(args.output_dir, exist_ok=True), then the loop starts
MakeOutputDir ==
  /\ pc = "makedirs"
  /\ dirs' = dirs \cup {<<"output_dir">>}
  /\ i' = args.node_base
  /\ pc' = "loop"
  /\ UNCHANGED <<args, exc, mem_mb, disk_size, direction, base_ip_int, prefix,
                 node_ip, sizeVars, scriptVars>>
  /\ UNCHANGED files

\* NodeIpInt reduced modulo 2^32
NodeIpInt_Wrap32(base, dir, idx, node_base) ==
  LET offset == idx - node_base
      n == IF dir = "+" THEN BigAdd(base, offset) ELSE BigSub(base, offset)
  IN BigInt(n.hi % Limb, n.lo)

\* NodeIpInt clamped to 0 .. 2^32 - 1
NodeIpInt_Clamp32(base, dir, idx, node_base) ==
  LET offset == idx - node_base
      n == IF dir = "+" THEN BigAdd(base, offset) ELSE BigSub(base, offset)
  IN IF n.hi < 0 THEN BigInt(0, 0)
     ELSE IF n.hi >= Limb THEN BigInt(Limb - 1, Limb - 1)
     ELSE n

\* node_ip_int of iteration idx: base_ip_int plus or minus the offset
NodeIpInt(base, dir, idx, node_base) ==
  LET offset == idx - node_base
  IN IF dir = "+" THEN BigAdd(base, offset) ELSE BigSub(base, offset)

\* The head of an iteration: node_ip = str(ipaddress.ip_address(node_ip_int));
\* ip_address raises ValueError for an integer that is no address
ResolveNodeIp ==
  /\ pc = "loop"
  /\ i < args.node_base + args.nodes
  /\ LET a == ip_address(NodeIpInt(base_ip_int, direction, i, args.node_base))
     IN IF a.ok
          THEN /\ node_ip' = a.text
               /\ pc' = "cloud_init"
               /\ exc' = exc
          ELSE /\ Abort("ValueError")
               /\ node_ip' = node_ip
  /\ UNCHANGED <<args, mem_mb, disk_size, direction, base_ip_int, prefix, i,
                 dirs, files, sizeVars, scriptVars>>

\* open(path, "w").write(content)
WriteFile(fs, path, content) ==
  [p \in (DOMAIN fs) \cup {path} |-> IF p = path THEN content ELSE fs[p]]

\* generate_cloud_init: the fields that vary from node to node
UserData(node_name, ip, pfx) ==
  [hostname |-> node_name, address |-> ip, prefixlen |-> pfx]

MetaData(node_name) ==
  [instance_id |-> node_name, local_hostname |-> node_name]

\* The node's config directory, user-data and meta-data
WriteCloudInit ==
  /\ pc = "cloud_init"
  /\ LET node_name == NodeName(i)
     IN /\ dirs' = dirs \cup {<<"output_dir", node_name>>}
        /\ files' =
             WriteFile(
               WriteFile(files, <<node_name, "user-data">>,
                         UserData(node_name, node_ip, prefix)),
               <<node_name, "meta-data">>, MetaData(node_name))
  /\ pc' = "virt_install"
  /\ UNCHANGED <<args, exc, mem_mb, disk_size, direction, base_ip_int, prefix,
                 i, node_ip, sizeVars, scriptVars>>

\* The VM image directory and the executable virt-install.sh; next iteration
WriteVirtInstall ==
  /\ pc = "virt_install"
  /\ LET node_name == NodeName(i)
     IN /\ dirs' = dirs \cup {<<"/var/lib/libvirt/images", node_name>>}
        /\ files' =
             WriteFile(files, <<node_name, "virt-install.sh">>,
                       [name |-> node_name, memory |-> mem_mb,
                        size |-> disk_size, mode |-> "755"])
  /\ i' = i + 1
  /\ pc' = "loop"
  /\ UNCHANGED <<args, exc, mem_mb, disk_size, direction, base_ip_int, prefix,
                 node_ip, sizeVars, scriptVars>>

\* range(node_base, node_base + nodes) is exhausted: main() returns
LoopExit ==
  /\ pc = "loop"
  /\ i >= args.node_base + args.nodes
  /\ pc' = "done"
  /\ UNCHANGED <<args, exc, mem_mb, disk_size, direction, base_ip_int, prefix,
                 i, node_ip, dirs, files, sizeVars, scriptVars>>

Next ==
  \/ ParseMemory
  \/ ParseDiskSize
  \/ CheckPattern
  \/ ParseCIDR
  \/ MakeOutputDir
  \/ ResolveNodeIp
  \/ WriteCloudInit
  \/ WriteVirtInstall
  \/ LoopExit

Spec == MainInit /\ [][Next]_vars

(***************************************************************************)
(* virt-install.sh, the script main() writes for a node.  It runs under    *)
(* bash without `set -e`: a failing command does not stop it.              *)
(***************************************************************************)
ScriptInit ==
  /\ script_pc = "idle"
  /\ iso_exists \in BOOLEAN
  /\ vm_dir_exists \in BOOLEAN
  /\ tool_installed \in BOOLEAN
  /\ runs = 0
  /\ run_log = <<>>
  /\ exit_code = -1
  /\ SizeIdle
  /\ MainIdle

\* The script is started (again)
ScriptStart ==
  /\ script_pc \in {"idle", "exited"}
  /\ runs < MaxRuns
  /\ runs' = runs + 1
  /\ run_log' = <<>>
  /\ script_pc' = "check_dir"
  /\ UNCHANGED <<iso_exists, vm_dir_exists, tool_installed, exit_code,
                 sizeVars, mainVars>>

\* [ ! -d "${VM_IMAGE_DIR}" ]
DirMissing(exists) == ~exists

\* if [ ! -d "${VM_IMAGE_DIR}" ]; then mkdir -p "${VM_IMAGE_DIR}"; fi
EnsureVmDir ==
  /\ script_pc = "check_dir"
  /\ IF DirMissing(vm_dir_exists)
       THEN /\ vm_dir_exists' = TRUE
            /\ run_log' = Append(run_log, "mkdir")
       ELSE UNCHANGED <<vm_dir_exists, run_log>>
  /\ script_pc' = "check_iso"
  /\ UNCHANGED <<iso_exists, tool_installed, runs, exit_code, sizeVars,
                 mainVars>>

\* IsoMissing with the test dropped: the ISO is regenerated on every run
IsoMissing_Always(exists) == TRUE

\* [ ! -f "${ISO_PATH}" ]
IsoMissing(exists) == ~exists

\* if [ ! -f "${ISO_PATH}" ]; then echo "Generating seed ISO ..."
CheckIso ==
  /\ script_pc = "check_iso"
  /\ IF IsoMissing(iso_exists)
       THEN /\ run_log' = Append(run_log, "echo generating")
            /\ script_pc' = "check_tool"
       ELSE /\ run_log' = run_log
            /\ script_pc' = "virt_install"
  /\ UNCHANGED <<iso_exists, vm_dir_exists, tool_installed, runs, exit_code,
                 sizeVars, mainVars>>

\* if ! command -v genisoimage; then echo "Error: ..." >&2; exit 1; fi
CheckTool ==
  /\ script_pc = "check_tool"
  /\ IF ~tool_installed
       THEN /\ run_log' = Append(run_log, "exit 1")
            /\ exit_code' = 1
            /\ script_pc' = "exited"
       ELSE /\ run_log' = Append(run_log, "command -v")
            /\ exit_code' = exit_code
            /\ script_pc' = "genisoimage"
  /\ UNCHANGED <<iso_exists, vm_dir_exists, tool_installed, runs, sizeVars,
                 mainVars>>

\* genisoimage -output "${ISO_PATH}" ...: it writes the ISO, or fails and
\* leaves none; either way the script goes on
RunGenisoimage ==
  /\ script_pc = "genisoimage"
  /\ \E written \in BOOLEAN : iso_exists' = (iso_exists \/ written)
  /\ run_log' = Append(run_log, "genisoimage")
  /\ script_pc' = "virt_install"
  /\ UNCHANGED <<vm_dir_exists, tool_installed, runs, exit_code, sizeVars,
                 mainVars>>

\* virt-install --name ...: the last command, its status is the script's
RunVirtInstall ==
  /\ script_pc = "virt_install"
  /\ \E status \in {0, 1} : exit_code' = status
  /\ run_log' = Append(run_log, "virt-install")
  /\ script_pc' = "exited"
  /\ UNCHANGED <<iso_exists, vm_dir_exists, tool_installed, runs, sizeVars,
                 mainVars>>

\* Between runs the user follows the hint "sudo apt install genisoimage"
InstallGenisoimage ==
  /\ script_pc = "exited"
  /\ ~tool_installed
  /\ tool_installed' = TRUE
  /\ UNCHANGED <<script_pc, iso_exists, vm_dir_exists, runs, run_log,
                 exit_code, sizeVars, mainVars>>

ScriptNext ==
  \/ ScriptStart
  \/ EnsureVmDir
  \/ CheckIso
  \/ CheckTool
  \/ RunGenisoimage
  \/ RunVirtInstall
  \/ InstallGenisoimage

SpecScript == ScriptInit /\ [][ScriptNext]_vars

(***************************************************************************)
(* Reading an address text back: int(ipaddress.ip_address(text)).          *)
(***************************************************************************)
HexVal(c) == (CHOOSE k \in 1..16 : HexDigits[k] = c) - 1

RECURSIVE HexNum(_)
HexNum(h) ==
  IF h = <<>> THEN 0
  ELSE 16 * HexNum(SubSeq(h, 1, Len(h) - 1)) + HexVal(h[Len(h)])

\* IPv6Address._parse_hextet accepts 1 to 4 hexadecimal digits
HextetOk(h) ==
  /\ Len(h) \in 1..4
  /\ \A k \in 1..Len(h) : \E d \in 1..16 : HexDigits[d] = h[k]

\* IPv6Address._ip_int_from_string: the eight hextet values of a text, or
\* <<>> when the text is no IPv6 address
IPv6Hextets(ip_str) ==
  LET parts == Split(ip_str, ":")
      n == Len(parts)
      skips == {k \in 2..(n - 1) : parts[k] = <<>>}
  IN IF n < 3 \/ n > 9 \/ Cardinality(skips) > 1 THEN <<>>
     ELSE IF skips = {}
       THEN (IF n = 8 /\ \A k \in 1..8 : HextetOk(parts[k])
               THEN [k \in 1..8 |-> HexNum(parts[k])]
               ELSE <<>>)
     ELSE LET sk == CHOOSE k \in skips : TRUE
              headEmpty == parts[1] = <<>>
              tailEmpty == parts[n] = <<>>
              parts_hi == IF headEmpty THEN sk - 2 ELSE sk - 1
              parts_lo == IF tailEmpty THEN n - sk - 1 ELSE n - sk
              skipped == 8 - (parts_hi + parts_lo)
              hi == SubSeq(parts, 1, parts_hi)
              lo == SubSeq(parts, n - parts_lo + 1, n)
          IN IF \/ (headEmpty /\ parts_hi # 0)
                \/ (tailEmpty /\ parts_lo # 0)
                \/ skipped < 1
                \/ \E k \in 1..Len(hi) : ~HextetOk(hi[k])
                \/ \E k \in 1..Len(lo) : ~HextetOk(lo[k])
               THEN <<>>
               ELSE [k \in 1..Len(hi) |-> HexNum(hi[k])]
                    \o [k \in 1..skipped |-> 0]
                    \o [k \in 1..Len(lo) |-> HexNum(lo[k])]

NoAddress == [ok |-> FALSE, value |-> BigInt(0, 0)]

\* int(ipaddress.ip_address(text)): IPv4 first, then IPv6.  An IPv6 value of
\* 2^47 or more is outside what the two limbs hold and is reported as none.
AddressInt(text) ==
  IF IsDottedQuad(text) THEN [ok |-> TRUE, value |-> IPv4Int(text)]
  ELSE LET h == IPv6Hextets(text)
       IN IF h # <<>> /\ (\A k \in 1..5 : h[k] = 0) /\ h[6] < 2^15
            THEN [ok |-> TRUE, value |-> BigInt(h[6] * Limb + h[7], h[8])]
            ELSE NoAddress

\* a - b = k, for a small integer k
DiffIs(a, b, k) ==
  /\ a.hi - b.hi \in (-1)..1
  /\ (a.hi - b.hi) * Limb + (a.lo - b.lo) = k

(***************************************************************************)
(* Properties of main().                                                   *)
(***************************************************************************)
Range(f) == {f[x] : x \in DOMAIN f}

\* The node indices the run was asked to generate
NodeIndices == args.node_base .. (args.node_base + args.nodes - 1)

UserDataPath(j) == <<NodeName(j), "user-data">>

\* The node indices whose user-data the run has written
WrittenNodes == {j \in NodeIndices : UserDataPath(j) \in DOMAIN files}

\* The files main() writes for node j
NodeFiles(j) ==
  {<<NodeName(j), "user-data">>, <<NodeName(j), "meta-data">>,
   <<NodeName(j), "virt-install.sh">>}

\* The request fails validation: a size string outside the grammar, a
\* pattern not ending in '+' or '-', or a malformed CIDR before that character
InvalidRequest ==
  \/ ~parse_memory(args.memory).ok
  \/ ~parse_disk_size(args.disk_size).ok
  \/ args.ip_pattern = <<>>
  \/ args.ip_pattern[Len(args.ip_pattern)] \notin {"+", "-"}
  \/ ~ip_interface(DropLast(args.ip_pattern, 1)).ok

\* C1: a run whose request fails validation creates no directory, writes no
\* file and generates no node, at the abort and at every moment before it;
\* and it never completes.
C1_ValidationAbortsBeforeWrites ==
  /\ InvalidRequest =>
       /\ dirs = {}
       /\ files = <<>>
       /\ pc \in {"parse_memory", "parse_disk_size", "check_pattern",
                  "parse_cidr", "aborted"}
  /\ (pc = "aborted" /\ exc \in {"ArgumentTypeError", "SystemExit", "IndexError"}) =>
       (InvalidRequest /\ dirs = {} /\ files = <<>>)

\* C1: a run aborted by a malformed CIDR, after the sizes and the direction
\* were accepted.
C1_Witness ==
  /\ pc = "aborted"
  /\ exc = "SystemExit"
  /\ direction \in {"+", "-"}
  /\ ~ip_interface(DropLast(args.ip_pattern, 1)).ok

\* The request is valid and its pattern carries an explicit prefix
ValidPrefixedRequest ==
  /\ ~InvalidRequest
  /\ \E k \in 1..Len(args.ip_pattern) : args.ip_pattern[k] = "/"
  /\ args.nodes >= 0

\* C2, as claimed: for a valid request every node's address is an IPv4
\* address: no node's resolution fails, and every address written to a
\* user-data is a dotted quad a.b.c.d.
C2_EveryAddressIsIPv4 ==
  ValidPrefixedRequest =>
    /\ exc # "ValueError"
    /\ \A j \in WrittenNodes : IsDottedQuad(files[UserDataPath(j)].address)

\* C3, as claimed: a run that has written a file ends with all the
\* requested nodes generated.
C3_WritingRunCompletes ==
  (pc \in {"done", "aborted"} /\ files # <<>>) =>
    \A j \in NodeIndices : NodeFiles(j) \subseteq DOMAIN files

\* C4: the address written for node j, read back as an integer, is
\* base_ip_int + (j - node_base) for '+' and base_ip_int - (j - node_base)
\* for '-'; the first node's text is the address of the pattern itself.
C4_AddressIsBasePlusOffset ==
  /\ \A j \in WrittenNodes :
       LET a == AddressInt(files[UserDataPath(j)].address)
       IN /\ a.ok
          /\ DiffIs(a.value, base_ip_int,
                    (IF direction = "+" THEN 1 ELSE -1) * (j - args.node_base))
  /\ args.node_base \in WrittenNodes =>
       files[UserDataPath(args.node_base)].address =
         Split(DropLast(args.ip_pattern, 1), "/")[1]

\* C4: three nodes written, counting down from the base address.
C4_Witness ==
  /\ pc = "done"
  /\ direction = "-"
  /\ Cardinality(WrittenNodes) = 3
  /\ files[UserDataPath(args.node_base + 2)].address =
       <<"1", "9", "2", ".", "1", "6", "8", ".", "1", ".", "9", "8">>

\* C10: no two nodes of a run are given the same address text.
C10_AddressesDistinct ==
  \A j, k \in WrittenNodes :
    j # k => files[UserDataPath(j)].address # files[UserDataPath(k)].address

\* C10: a run that walked past 255.255.255.255 and wrote three nodes.
C10_Witness ==
  /\ pc = "done"
  /\ Cardinality(WrittenNodes) = 3
  /\ \E j \in WrittenNodes : ~IsDottedQuad(files[UserDataPath(j)].address)

(***************************************************************************)
(* Properties of the size parsers.                                         *)
(***************************************************************************)
\* The string a parser looks at: trimmed, upper-cased
Canon(s) == Upper(Strip(s))

HasSuffixG(s) == EndsWith(Canon(s), <<"G">>) \/ EndsWith(Canon(s), <<"G", "B">>)

HasSuffixM(s) == EndsWith(Canon(s), <<"M">>) \/ EndsWith(Canon(s), <<"M", "B">>)

\* The numeric portion before a G/GB/M/MB suffix
NumericPortion(s) ==
  IF EndsWith(Canon(s), <<"B">>) THEN DropLast(Canon(s), 2) ELSE DropLast(Canon(s), 1)

\* Numerator of the numeric portion's value over Pow10(scale)
Numerator(f) == IF f.neg THEN -f.mant ELSE f.mant

\* q is num / den truncated toward zero (den > 0)
IsTrunc(q, num, den) ==
  IF num >= 0
    THEN q >= 0 /\ q * den <= num /\ num < (q + 1) * den
    ELSE q <= 0 /\ q * den >= num /\ num > (q - 1) * den

\* C5, as claimed: every size a parser returns is non-negative.
C5_SizesNonNegative ==
  /\ mem_ret.ok => mem_ret.value >= 0
  /\ disk_ret.ok => disk_ret.value >= 0

\* The message of a failure names the offending string
NamesInput(r) == r.arg # <<>> /\ r.arg \in {size_str, Strip(size_str), Canon(size_str)}

\* The message of a failure names the accepted suffix set
NamesGrammar(r) == r.literal \in {MemGrammarText, DiskGrammarText}

\* C6, as claimed: every rejection is an InvalidSizeError whose message
\* names both the offending string and the expected grammar.
C6_MessageNamesInputAndGrammar ==
  \A r \in {mem_ret, disk_ret} :
    (r # NotCalled /\ ~r.ok) =>
      (r.exc = "ArgumentTypeError" /\ NamesInput(r) /\ NamesGrammar(r))

\* C8: parse_disk_size gives max(1, trunc(value / 1024)), never 0, for an
\* accepted M/MB string; the digits unchanged for a digit string; the value
\* truncated toward zero for a G/GB string.
C8_DiskSizeRule ==
  disk_ret.ok =>
    LET f == Float(NumericPortion(size_str))
        q == disk_ret.value
    IN IF IsDigit(Canon(size_str)) THEN q = DecVal(Strip(size_str))
       ELSE IF HasSuffixG(size_str)
         THEN f.ok /\ IsTrunc(q, Numerator(f), Pow10(f.scale))
       ELSE /\ HasSuffixM(size_str)
            /\ f.ok
            /\ q # 0
            /\ IF Numerator(f) < 1024 * Pow10(f.scale) THEN q = 1
               ELSE IsTrunc(q, Numerator(f), 1024 * Pow10(f.scale))

\* C8: 512M is accepted and raised to the minimum of 1.
C8_Witness ==
  /\ size_str = <<"5", "1", "2", "M">>
  /\ disk_ret = Return(1)

\* C9: parse_memory gives the digits unchanged for a digit string, the
\* value times 1024 truncated toward zero for a G/GB string and the value
\* truncated toward zero for an M/MB string, whatever the case of the suffix
\* and the surrounding whitespace.
C9_MemoryRule ==
  mem_ret.ok =>
    LET f == Float(NumericPortion(size_str))
        q == mem_ret.value
    IN IF IsDigit(Strip(size_str)) THEN q = DecVal(Strip(size_str))
       ELSE IF HasSuffixG(size_str)
         THEN f.ok /\ IsTrunc(q, Numerator(f) * 1024, Pow10(f.scale))
       ELSE /\ HasSuffixM(size_str)
            /\ f.ok
            /\ IsTrunc(q, Numerator(f), Pow10(f.scale))

\* C9: " 1.5gb " is accepted as 1536 megabytes.
C9_Witness ==
  /\ size_str = <<" ", "1", ".", "5", "g", "b", " ">>
  /\ mem_ret = Return(1536)

(***************************************************************************)
(* Properties of virt-install.sh.                                          *)
(***************************************************************************)
\* C7, as claimed: every finished run of the script has attempted the
\* VM-creation command, and the ISO tool is required and invoked only when
\* the ISO is missing.
C7_EveryRunAttemptsVm ==
  /\ script_pc \in {"check_tool", "genisoimage"} => ~iso_exists
  /\ script_pc = "exited" => "virt-install" \in Range(run_log)

\* C7, amended: the ISO tool is required and invoked only when the ISO does
\* not exist; a run that found the ISO missing and reached VM creation has
\* invoked genisoimage; and every finished run has attempted the VM-creation
\* command unless it exited with status 1 because the ISO was missing and
\* genisoimage is not installed.
C7_IsoOnceVmUnlessToolMissing ==
  /\ script_pc \in {"check_tool", "genisoimage"} => ~iso_exists
  /\ "genisoimage" \in Range(run_log) =>
       /\ "echo generating" \in Range(run_log)
       /\ "command -v" \in Range(run_log)
  /\ script_pc = "exited" =>
       \/ /\ run_log[Len(run_log)] = "virt-install"
          /\ "echo generating" \in Range(run_log) => "genisoimage" \in Range(run_log)
       \/ /\ run_log[Len(run_log)] = "exit 1"
          /\ exit_code = 1
          /\ ~iso_exists
          /\ "genisoimage" \notin Range(run_log)

\* C7: a re-run that found the ISO in place: no tool check, no genisoimage,
\* and the VM-creation command attempted again.
C7_Witness ==
  /\ script_pc = "exited"
  /\ runs >= 2
  /\ iso_exists
  /\ run_log = <<"virt-install">>

=============================================================================
